---- MODULE Spec2Model ----
(***************************************************************************)
(* The internal messaging subsystem of wells-backend: the Message          *)
(* collection (models/Message.js), the messages controller                 *)
(* (controllers/messages.controller.js) and its routes                     *)
(* (routes/messages.routes.js).                                            *)
(*                                                                         *)
(* Under Spec every request handler runs to completion before the next     *)
(* request starts (requests are served one after the other).               *)
(***************************************************************************)
EXTENDS Integers, Sequences, FiniteSets, TLC

(***************************************************************************)
(* Bounds of the model.                                                    *)
(***************************************************************************)
\* number of documents the Message collection may hold
MaxMsgs == 2
\* the clock (new Date()) runs over 1..MaxTime
MaxTime == 2
\* length of the recipients array of a request body
MaxRcpt == 2
\* number of markers one message's deletedBy array may hold
MaxDel == 2
\* page numbers a client asks for
MaxPage == 1

\* JavaScript null / undefined (threadId of a root message, readAt of an unread entry)
Null == 0

(***************************************************************************)
(* Users and roles.                                                        *)
(***************************************************************************)
SUPER_ADMIN == "super_admin"
ADMIN == "admin"
PROJECT_MANAGER == "project_manager"
CONTRACTOR == "contractor"
VIEWER == "viewer"

\* the User collection: a super admin, an admin, a project manager, a
\* contractor, a viewer, and a project manager whose account is deactivated
Users == {"sa", "ad", "pm", "ct", "vw", "px"}

Role(u) ==
  CASE u = "sa" -> SUPER_ADMIN
    [] u = "ad" -> ADMIN
    [] u \in {"pm", "px"} -> PROJECT_MANAGER
    [] u = "ct" -> CONTRACTOR
    [] OTHER -> VIEWER

\* user.isActive
isActive(u) == u \in Users \ {"px"}

\* the authenticate middleware lets the request of u through to the controller
authenticate(u) == u \in Users /\ isActive(u)

\* the order of ObjectId strings under Array.prototype.sort()
Rank(u) ==
  CASE u = "ct" -> 1
    [] u = "pm" -> 2
    [] u = "sa" -> 3
    [] u = "vw" -> 4
    [] u = "ad" -> 5
    [] OTHER -> 6

(***************************************************************************)
(* Text: a string is a sequence of characters, " " is white space.         *)
(***************************************************************************)
Texts == {<<" ">>, <<" ", "x", " ">>}

RECURSIVE TrimStart(_)
TrimStart(s) ==
  IF s # <<>> /\ Head(s) = " " THEN TrimStart(Tail(s)) ELSE s

RECURSIVE TrimEnd(_)
TrimEnd(s) ==
  IF s # <<>> /\ s[Len(s)] = " " THEN TrimEnd(SubSeq(s, 1, Len(s) - 1)) ELSE s

\* String.prototype.trim
trim(s) == TrimEnd(TrimStart(s))

(***************************************************************************)
(* Sequence helpers.                                                       *)
(***************************************************************************)
Range(s) == {s[i] : i \in DOMAIN s}

RECURSIVE Filter(_, _)
\* Array.prototype.filter with the predicate "element is in keep"
Filter(s, keep) ==
  IF s = <<>> THEN <<>>
  ELSE IF Head(s) \in keep THEN <<Head(s)>> \o Filter(Tail(s), keep)
  ELSE Filter(Tail(s), keep)

RECURSIVE Unique(_)
\* [...new Set(s)]: first occurrences, in order
Unique(s) ==
  IF s = <<>> THEN <<>>
  ELSE <<Head(s)>> \o Unique(Filter(Tail(s), Range(s) \ {Head(s)}))

\* all sequences over S of length 0..n
RECURSIVE SeqsUpTo(_, _)
SeqsUpTo(S, n) ==
  IF n = 0 THEN {<<>>}
  ELSE LET shorter == SeqsUpTo(S, n - 1)
       IN shorter \cup {Append(s, x) : s \in {t \in shorter : Len(t) = n - 1}, x \in S}

\* all orderings of the finite set S
Perms(S) ==
  {f \in [1..Cardinality(S) -> S] : \A i, j \in 1..Cardinality(S) : i # j => f[i] # f[j]}

(***************************************************************************)
(* State.                                                                  *)
(***************************************************************************)
VARIABLES
  messages,    \* the Message collection, in insertion order; messages[i]._id = i
  projects,    \* the Project collection: set of [projectManager, contractor]
  now,         \* the clock read by new Date()
  positional,  \* which array match the server binds the positional $ operator to
  response,    \* the last request (handler, req.user, req.params.threadId) and the
               \* response to it; requested is req.body.recipients of a stored message
  notifications, \* the Notification collection: set of [recipient, message]
  pending      \* per user, the getConversationMessages request being served: what
               \* its Message.find returned, while its updateMany is still to come

vars == <<messages, projects, now, positional, response, notifications, pending>>

Ids == 1..Len(messages)

\* an ObjectId that is well formed and names no message
GhostId == MaxMsgs + 1

\* the users who send and are written to under SpecSend
Correspondents == {"sa", "pm", "ct", "vw"}

RecipientLists == SeqsUpTo(Correspondents, MaxRcpt)

\* the threadId values a request carries: null, a message's id, or a well-formed
\* ObjectId naming nothing
ThreadIds == {Null} \cup Ids \cup {GhostId}

(***************************************************************************)
(* Message documents and the query filters of the controller.              *)
(***************************************************************************)
recipientIds(m) == {m.recipients[i].recipient : i \in DOMAIN m.recipients}

deletedByUsers(m) == {m.deletedBy[i].user : i \in DOMAIN m.deletedBy}

\* $or: [{ sender: userId }, { 'recipients.recipient': userId }]
isParticipant(m, u) == m.sender = u \/ u \in recipientIds(m)

\* $or: [{ _id: threadId }, { threadId }]
inThread(m, k) == m._id = k \/ m.threadId = k

\* 'recipients.recipient': userId, 'recipients.isRead': false -- two conditions on
\* the array, each satisfied by some element (not necessarily the same one)
matchesUnread(m, u) ==
  /\ \E i \in DOMAIN m.recipients : m.recipients[i].recipient = u
  /\ \E i \in DOMAIN m.recipients : m.recipients[i].isRead = FALSE

\* conversationsFilter without the $nor on deletedBy.user
conversationsFilter_NoNor(msgs, u) ==
  {i \in DOMAIN msgs : isParticipant(msgs[i], u) /\ msgs[i].isDeleted = FALSE}

\* the filter of Message.find in getConversations
conversationsFilter(msgs, u) ==
  {i \in DOMAIN msgs :
     /\ isParticipant(msgs[i], u)
     /\ msgs[i].isDeleted = FALSE
     /\ u \notin deletedByUsers(msgs[i])}

\* threadFilter without the $nor on deletedBy.user
threadFilter_NoNor(msgs, u, k) ==
  {i \in DOMAIN msgs :
     /\ inThread(msgs[i], k)
     /\ msgs[i].isDeleted = FALSE
     /\ isParticipant(msgs[i], u)}

\* the filter of Message.find in getConversationMessages
threadFilter(msgs, u, k) ==
  {i \in DOMAIN msgs :
     /\ inThread(msgs[i], k)
     /\ msgs[i].isDeleted = FALSE
     /\ u \notin deletedByUsers(msgs[i])
     /\ isParticipant(msgs[i], u)}

\* the filter of Message.find in deleteConversation
deleteFilter(msgs, u, k) ==
  {i \in DOMAIN msgs : inThread(msgs[i], k) /\ isParticipant(msgs[i], u)}

\* the filter of Message.countDocuments in getUnreadCount
unreadFilter(msgs, u) ==
  {i \in DOMAIN msgs :
     /\ matchesUnread(msgs[i], u)
     /\ msgs[i].isDeleted = FALSE
     /\ u \notin deletedByUsers(msgs[i])}

\* .sort({ createdAt: -1 }): every order of the ids in S with createdAt
\* non-increasing (the order of documents with equal createdAt is not specified)
sortedDesc(msgs, S) ==
  {f \in Perms(S) :
     \A i, j \in DOMAIN f : i < j => msgs[f[i]].createdAt >= msgs[f[j]].createdAt}

\* sortedAsc without the sort: the documents in any order
sortedAsc_Unsorted(msgs, S) == Perms(S)

\* .sort({ createdAt: 1 })
sortedAsc(msgs, S) ==
  {f \in Perms(S) :
     \A i, j \in DOMAIN f : i < j => msgs[f[i]].createdAt =< msgs[f[j]].createdAt}

(***************************************************************************)
(* The positional update of the mark-read updateMany.                      *)
(***************************************************************************)
firstIndex(m, P(_)) ==
  CHOOSE i \in DOMAIN m.recipients :
    P(m.recipients[i]) /\ \A j \in 1..(i - 1) : ~P(m.recipients[j])

\* the array index 'recipients.$' stands for in a document that matches
\* matchesUnread(m, u): the query has two conditions on the array and no
\* $elemMatch, so the server binds $ to the first element matching one of them
positionalIndex(m, u, pos) ==
  IF pos = "recipient"
  THEN LET isU(r) == r.recipient = u IN firstIndex(m, isU)
  ELSE LET unread(r) == r.isRead = FALSE IN firstIndex(m, unread)

\* setRead that replaces the whole entry by one of the caller
setRead_Replace(m, u, t, pos) ==
  IF matchesUnread(m, u)
  THEN [m EXCEPT !.recipients[positionalIndex(m, u, pos)] =
          [recipient |-> u, isRead |-> TRUE, readAt |-> t]]
  ELSE m

\* $set: { 'recipients.$.isRead': true, 'recipients.$.readAt': new Date() }
setRead(m, u, t, pos) ==
  IF matchesUnread(m, u)
  THEN [m EXCEPT !.recipients[positionalIndex(m, u, pos)] =
          [@ EXCEPT !.isRead = TRUE, !.readAt = t]]
  ELSE m

\* Message.updateMany(<ids, recipient u, some entry unread>, $set ...)
markRead(msgs, ids, u, t, pos) ==
  [i \in DOMAIN msgs |-> IF i \in ids THEN setRead(msgs[i], u, t, pos) ELSE msgs[i]]

\* pushDeletedBy that also sets the global isDeleted flag
pushDeletedBy_Purge(msgs, u, k, t) ==
  [i \in DOMAIN msgs |->
     IF inThread(msgs[i], k)
     THEN [msgs[i] EXCEPT !.deletedBy = Append(@, [user |-> u, deletedAt |-> t]),
                          !.isDeleted = TRUE]
     ELSE msgs[i]]

\* $push: { deletedBy: { user: userId, deletedAt: new Date() } } on every
\* message of the thread
pushDeletedBy(msgs, u, k, t) ==
  [i \in DOMAIN msgs |->
     IF inThread(msgs[i], k)
     THEN [msgs[i] EXCEPT !.deletedBy = Append(@, [user |-> u, deletedAt |-> t])]
     ELSE msgs[i]]

(***************************************************************************)
(* Recipient policy.                                                       *)
(***************************************************************************)
\* a Project document without contractor / projectManager
NoUser == "none"

admins == {x \in Users : Role(x) \in {SUPER_ADMIN, ADMIN} /\ isActive(x)}

\* getAllowedRecipients that gives every other role the administrators
getAllowedRecipients_OthersToAdmins(u, projs) ==
  IF Role(u) \in {SUPER_ADMIN, ADMIN}
  THEN {x \in Users : isActive(x)}
  ELSE IF Role(u) = PROJECT_MANAGER
  THEN admins \cup
       {x \in Users : isActive(x) /\
          \E p \in projs : p.projectManager = u /\ p.contractor # NoUser /\ p.contractor = x}
  ELSE IF Role(u) = CONTRACTOR
  THEN admins \cup
       {x \in Users : isActive(x) /\
          \E p \in projs : p.contractor = u /\ p.projectManager # NoUser /\ p.projectManager = x}
  ELSE admins

\* getAllowedRecipients that gives a contractor every project manager and a
\* project manager every contractor, whatever the projects
getAllowedRecipients_AnyProject(u, projs) ==
  IF Role(u) \in {SUPER_ADMIN, ADMIN}
  THEN {x \in Users : isActive(x)}
  ELSE IF Role(u) = PROJECT_MANAGER
  THEN admins \cup {x \in Users : isActive(x) /\ Role(x) = CONTRACTOR}
  ELSE IF Role(u) = CONTRACTOR
  THEN admins \cup {x \in Users : isActive(x) /\ Role(x) = PROJECT_MANAGER}
  ELSE {}

\* the ids of the users getAllowedRecipients(user) returns
getAllowedRecipients(u, projs) ==
  IF Role(u) \in {SUPER_ADMIN, ADMIN}
  THEN {x \in Users : isActive(x)}
  ELSE IF Role(u) = PROJECT_MANAGER
  THEN admins \cup
       {x \in Users : isActive(x) /\
          \E p \in projs : p.projectManager = u /\ p.contractor # NoUser /\ p.contractor = x}
  ELSE IF Role(u) = CONTRACTOR
  THEN admins \cup
       {x \in Users : isActive(x) /\
          \E p \in projs : p.contractor = u /\ p.projectManager # NoUser /\ p.projectManager = x}
  ELSE {}

(***************************************************************************)
(* sendMessage: the validators of router.post('/') and the controller.     *)
(***************************************************************************)
\* invalidRecipients computed from the projects as they were first, not as
\* they are
invalidRecipients_Stale(u, recipients, projs) ==
  Filter(recipients,
         Users \ getAllowedRecipients(u, {[projectManager |-> "pm", contractor |-> "ct"]}))

\* recipients.filter((r) => !allowedRecipientIds.includes(r.toString()))
invalidRecipients(u, recipients, projs) ==
  Filter(recipients, Users \ getAllowedRecipients(u, projs))

\* uniqueRecipients without the Set: repeated ids are kept
uniqueRecipients_NoSet(u, recipients) == Filter(recipients, Users \ {u})

\* [...new Set(recipients.filter((r) => r.toString() !== senderId.toString()))]
uniqueRecipients(u, recipients) == Unique(Filter(recipients, Users \ {u}))

\* the HTTP status sendMessage answers with
sendStatus(u, recipients, subject, body, projs) ==
  IF Len(recipients) = 0 THEN 400
  ELSE IF trim(subject) = <<>> THEN 400
  ELSE IF trim(body) = <<>> THEN 400
  ELSE IF Len(invalidRecipients(u, recipients, projs)) > 0 THEN 403
  ELSE IF Len(uniqueRecipients(u, recipients)) = 0 THEN 400
  ELSE 201

\* messageData, as Message.create stores it
messageData(id, u, recipients, subject, body, threadId, t) ==
  [_id |-> id,
   sender |-> u,
   recipients |-> [i \in DOMAIN uniqueRecipients(u, recipients) |->
                     [recipient |-> uniqueRecipients(u, recipients)[i],
                      isRead |-> FALSE,
                      readAt |-> Null]],
   subject |-> trim(subject),
   body |-> trim(body),
   threadId |-> threadId,
   isDeleted |-> FALSE,
   deletedBy |-> <<>>,
   createdAt |-> t]

(***************************************************************************)
(* getConversations: grouping, ordering and paging of the inbox.           *)
(***************************************************************************)
RECURSIVE sortIds(_)
\* participants.sort()
sortIds(s) ==
  IF s = <<>> THEN <<>>
  ELSE LET rest == sortIds(Tail(s))
           before == {i \in DOMAIN rest : Rank(rest[i]) < Rank(Head(s))}
       IN SubSeq(rest, 1, Cardinality(before)) \o <<Head(s)>>
          \o SubSeq(rest, Cardinality(before) + 1, Len(rest))

recipientSeq(m) == [i \in DOMAIN m.recipients |-> m.recipients[i].recipient]

\* conversationKey: threadId.toString(), or the sorted participant ids joined by '-'
conversationKey(m) ==
  IF m.threadId # Null
  THEN [thread |-> m.threadId, participants |-> <<>>]
  ELSE [thread |-> Null, participants |-> sortIds(<<m.sender>> \o recipientSeq(m))]

\* ownEntryUnread that looks at the isRead of every entry
ownEntryUnread_AnyEntry(m, u) ==
  /\ u \in recipientIds(m)
  /\ \E i \in DOMAIN m.recipients : m.recipients[i].isRead = FALSE

\* message.recipients.find((r) => r.recipient._id.toString() === userId.toString())
\* exists and has isRead false
ownEntryUnread(m, u) ==
  /\ u \in recipientIds(m)
  /\ LET isU(r) == r.recipient = u IN m.recipients[firstIndex(m, isU)].isRead = FALSE

\* the entry conversationsMap.set stores for the first message of a key
newConversation(m, u) ==
  LET isSender == m.sender = u
  IN [key |-> conversationKey(m),
      _id |-> m._id,
      threadId |-> IF m.threadId # Null THEN m.threadId ELSE m._id,
      subject |-> m.subject,
      lastMessage |-> m.body,
      lastMessageAt |-> m.createdAt,
      participants |-> IF isSender THEN recipientSeq(m)
                       ELSE <<m.sender>> \o Filter(recipientSeq(m), Users \ {u}),
      unreadCount |-> IF isSender THEN 0 ELSE IF ownEntryUnread(m, u) THEN 1 ELSE 0,
      isSender |-> isSender]

\* the else branch: a further message of a key already in the map
addToConversation(conv, m, u) ==
  LET newer == m.createdAt > conv.lastMessageAt
      c1 == IF newer
            THEN [conv EXCEPT !.lastMessage = m.body,
                              !.lastMessageAt = m.createdAt,
                              !._id = m._id]
            ELSE conv
  IN IF m.sender # u /\ ownEntryUnread(m, u)
     THEN [c1 EXCEPT !.unreadCount = @ + 1]
     ELSE c1

\* one turn of messages.forEach on the map (a Map keeps insertion order)
groupStep(convs, m, u) ==
  IF \E j \in DOMAIN convs : convs[j].key = conversationKey(m)
  THEN [j \in DOMAIN convs |->
          IF convs[j].key = conversationKey(m)
          THEN addToConversation(convs[j], m, u)
          ELSE convs[j]]
  ELSE Append(convs, newConversation(m, u))

RECURSIVE groupMessages(_, _, _)
\* messages.forEach over the documents in the order ord
groupMessages(msgs, ord, u) ==
  IF ord = <<>> THEN <<>>
  ELSE groupStep(groupMessages(msgs, SubSeq(ord, 1, Len(ord) - 1), u),
                 msgs[ord[Len(ord)]], u)

RECURSIVE sortConversations(_)
\* .sort((a, b) => new Date(b.lastMessageAt) - new Date(a.lastMessageAt)), stable
sortConversations(convs) ==
  IF convs = <<>> THEN <<>>
  ELSE LET n == Len(convs)
           init == sortConversations(SubSeq(convs, 1, n - 1))
           x == convs[n]
           keep == {i \in DOMAIN init : init[i].lastMessageAt >= x.lastMessageAt}
       IN SubSeq(init, 1, Cardinality(keep)) \o <<x>>
          \o SubSeq(init, Cardinality(keep) + 1, Len(init))

\* paginate(page, limit)
paginate(page, limit) == [skip |-> (page - 1) * limit, limit |-> limit]

\* Array.prototype.slice(from, to)
slice(s, from, to) ==
  SubSeq(s, from + 1, IF to < Len(s) THEN to ELSE Len(s))

\* the Map's values, as they are serialised
conversationValue(c) ==
  [_id |-> c._id, threadId |-> c.threadId, subject |-> c.subject,
   lastMessage |-> c.lastMessage, lastMessageAt |-> c.lastMessageAt,
   participants |-> c.participants, unreadCount |-> c.unreadCount,
   isSender |-> c.isSender]

\* every conversation of u, sorted, for the document order ord
allConversations(msgs, ord, u) ==
  LET sorted == sortConversations(groupMessages(msgs, ord, u))
  IN [i \in DOMAIN sorted |-> conversationValue(sorted[i])]

\* the conversations of one page
conversationsPage(msgs, ord, u, page, limit) ==
  slice(allConversations(msgs, ord, u),
        paginate(page, limit).skip,
        paginate(page, limit).skip + paginate(page, limit).limit)

\* Math.ceil(total / pageLimit)
totalPages(total, limit) == (total + limit - 1) \div limit

(***************************************************************************)
(* Requests.                                                               *)
(***************************************************************************)
\* the thread keys of a URL: the ids of the messages
ThreadKeys == Ids

\* req.query.limit: 1, or the default
DefaultLimit == 20
Limits == {1, DefaultLimit}
Pages == 1..MaxPage

noPagination == [page |-> 0, limit |-> 0, total |-> 0, totalPages |-> 0]

\* a response without data: successResponse(res, status, message) / errorResponse
plainResponse(op, u, k, status) ==
  [op |-> op, user |-> u, thread |-> k, requested |-> <<>>, status |-> status,
   messages |-> <<>>, conversations |-> <<>>, pagination |-> noPagination, count |-> 0]

\* no request of the user is being served
noRequest == [phase |-> "start", thread |-> Null, found |-> <<>>, at |-> Null]

Init ==
  /\ messages = <<>>
  /\ projects = {[projectManager |-> "pm", contractor |-> "ct"]}
  /\ now = 1
  /\ positional \in {"recipient", "isRead"}
  /\ response = plainResponse("none", NoUser, Null, 0)
  /\ notifications = {}
  /\ pending = [u \in Users |-> noRequest]

\* time passes
Tick ==
  /\ now < MaxTime
  /\ now' = now + 1
  /\ UNCHANGED <<messages, projects, positional, response, notifications, pending>>

\* sendMessage that creates the message before it checks the recipients
sendMessage_CreateFirst(u, recipients, subject, body, threadId) ==
  LET status == sendStatus(u, recipients, subject, body, projects)
      doc == messageData(Len(messages) + 1, u, recipients, subject, body, threadId, now)
      written == status = 201 \/ (status = 403 /\ Len(uniqueRecipients(u, recipients)) > 0)
  IN /\ written => Len(messages) < MaxMsgs
     /\ messages' = IF written THEN Append(messages, doc) ELSE messages
     /\ response' = [plainResponse("sendMessage", u, Null, status) EXCEPT
                       !.requested = IF status = 201 THEN recipients ELSE <<>>,
                       !.messages = IF status = 201 THEN <<doc>> ELSE <<>>]
     /\ UNCHANGED <<projects, now, positional, notifications, pending>>

\* POST /messages
sendMessage(u, recipients, subject, body, threadId) ==
  LET status == sendStatus(u, recipients, subject, body, projects)
      doc == messageData(Len(messages) + 1, u, recipients, subject, body, threadId, now)
  IN /\ status = 201 => Len(messages) < MaxMsgs
     /\ messages' = IF status = 201 THEN Append(messages, doc) ELSE messages
     /\ response' = [plainResponse("sendMessage", u, Null, status) EXCEPT
                       !.requested = IF status = 201 THEN recipients ELSE <<>>,
                       !.messages = IF status = 201 THEN <<doc>> ELSE <<>>]
     /\ UNCHANGED <<projects, now, positional, notifications, pending>>

\* GET /messages/conversations
getConversations(u, page, limit) ==
  \E ord \in sortedDesc(messages, conversationsFilter(messages, u)) :
    LET total == Len(allConversations(messages, ord, u))
    IN /\ response' = [plainResponse("getConversations", u, Null, 200) EXCEPT
                         !.conversations = conversationsPage(messages, ord, u, page, limit),
                         !.pagination = [page |-> page, limit |-> limit, total |-> total,
                                         totalPages |-> totalPages(total, limit)]]
       /\ UNCHANGED <<messages, projects, now, positional, notifications, pending>>

\* getConversationMessages that answers 403 for a thread that exists and of
\* which the user sees nothing
getConversationMessages_Forbidden(u, k) ==
  \E ord \in sortedAsc(messages, threadFilter(messages, u, k)) :
    IF Len(ord) = 0
    THEN /\ response' = plainResponse("getConversationMessages", u, k,
                                       IF \E i \in Ids : inThread(messages[i], k)
                                       THEN 403 ELSE 404)
         /\ UNCHANGED <<messages, projects, now, positional, notifications, pending>>
    ELSE /\ messages' = markRead(messages, Range(ord), u, now, positional)
         /\ response' = [plainResponse("getConversationMessages", u, k, 200) EXCEPT
                           !.messages = [i \in DOMAIN ord |-> messages[ord[i]]]]
         /\ UNCHANGED <<projects, now, positional, notifications, pending>>

\* GET /messages/conversations/:threadId/messages
getConversationMessages(u, k) ==
  \E ord \in sortedAsc(messages, threadFilter(messages, u, k)) :
    IF Len(ord) = 0
    THEN /\ response' = plainResponse("getConversationMessages", u, k, 404)
         /\ UNCHANGED <<messages, projects, now, positional, notifications, pending>>
    ELSE /\ messages' = markRead(messages, Range(ord), u, now, positional)
         /\ response' = [plainResponse("getConversationMessages", u, k, 200) EXCEPT
                           !.messages = [i \in DOMAIN ord |-> messages[ord[i]]]]
         /\ UNCHANGED <<projects, now, positional, notifications, pending>>

\* PATCH /messages/conversations/:threadId/read
markAsRead(u, k) ==
  /\ messages' = markRead(messages, {i \in Ids : inThread(messages[i], k)}, u, now, positional)
  /\ response' = plainResponse("markAsRead", u, k, 200)
  /\ UNCHANGED <<projects, now, positional, notifications, pending>>

\* deleteConversation that lets every administrator (admin too) delete
deleteConversation_AnyAdmin(u, k) ==
  IF Role(u) \notin {SUPER_ADMIN, ADMIN}
  THEN /\ response' = plainResponse("deleteConversation", u, k, 403)
       /\ UNCHANGED <<messages, projects, now, positional, notifications, pending>>
  ELSE IF deleteFilter(messages, u, k) = {}
  THEN /\ response' = plainResponse("deleteConversation", u, k, 404)
       /\ UNCHANGED <<messages, projects, now, positional, notifications, pending>>
  ELSE /\ \A i \in Ids : inThread(messages[i], k) => Len(messages[i].deletedBy) < MaxDel
       /\ messages' = pushDeletedBy(messages, u, k, now)
       /\ response' = plainResponse("deleteConversation", u, k, 200)
       /\ UNCHANGED <<projects, now, positional, notifications, pending>>

\* DELETE /messages/conversations/:threadId
deleteConversation(u, k) ==
  IF Role(u) # SUPER_ADMIN
  THEN /\ response' = plainResponse("deleteConversation", u, k, 403)
       /\ UNCHANGED <<messages, projects, now, positional, notifications, pending>>
  ELSE IF deleteFilter(messages, u, k) = {}
  THEN /\ response' = plainResponse("deleteConversation", u, k, 404)
       /\ UNCHANGED <<messages, projects, now, positional, notifications, pending>>
  ELSE /\ \A i \in Ids : inThread(messages[i], k) => Len(messages[i].deletedBy) < MaxDel
       /\ messages' = pushDeletedBy(messages, u, k, now)
       /\ response' = plainResponse("deleteConversation", u, k, 200)
       /\ UNCHANGED <<projects, now, positional, notifications, pending>>

\* GET /messages/unread-count
getUnreadCount(u) ==
  /\ response' = [plainResponse("getUnreadCount", u, Null, 200) EXCEPT
                    !.count = Cardinality(unreadFilter(messages, u))]
  /\ UNCHANGED <<messages, projects, now, positional, notifications, pending>>

(***************************************************************************)
(* Specifications.  Each draws the requests from small sets.               *)
(***************************************************************************)
\* the users who hold the conversation of Spec and SpecRead
Participants == {"sa", "pm", "ct"}

\* the recipient lists of that conversation: sa writes to pm and ct, and
\* pm and ct each write to sa (anything else is refused)
ThreadLists == {<<"pm", "ct">>, <<"sa">>}

\* a subject or body that passes validation
SomeText == <<" ", "x", " ">>

\* POST /messages with recipient lists from lists, subject and body from texts
\* and thread ids from threads
Send(senders, lists, texts, threads) ==
  \E u \in {s \in senders : authenticate(s)}, recipients \in lists,
     subject \in texts, body \in texts, threadId \in threads :
    sendMessage(u, recipients, subject, body, threadId)

Inbox == \E u \in Participants, page \in Pages, limit \in Limits : getConversations(u, page, limit)

Thread == \E u \in Participants, k \in ThreadKeys : getConversationMessages(u, k)

Read == \E u \in Participants, k \in ThreadKeys : markAsRead(u, k)

Delete == \E u \in Participants, k \in ThreadKeys : deleteConversation(u, k)

Unread == \E u \in Participants : getUnreadCount(u)

\* Spec: every handler, the requests of one conversation, served one after the
\* other at one reading of the clock
Next ==
  \/ Send(Participants, ThreadLists, {SomeText}, {Null} \cup Ids)
  \/ Inbox
  \/ Thread
  \/ Read
  \/ Delete
  \/ Unread

Spec == Init /\ [][Next]_vars

\* SpecRead: read tracking while time passes
NextRead ==
  \/ Tick
  \/ Send(Participants, ThreadLists, {SomeText}, {Null} \cup Ids)
  \/ Thread
  \/ Read
  \/ Unread

SpecRead == Init /\ [][NextRead]_vars

\* SpecSend: sendMessage for every request body within the bounds
NextSend ==
  \/ Send(Correspondents, RecipientLists, Texts, ThreadIds)

\* sa has written to pm
InitSend ==
  /\ messages = <<messageData(1, "sa", <<"pm">>, SomeText, SomeText, Null, 1)>>
  /\ projects = {[projectManager |-> "pm", contractor |-> "ct"]}
  /\ now = 1
  /\ positional \in {"recipient", "isRead"}
  /\ response = plainResponse("none", NoUser, Null, 0)
  /\ notifications = {}
  /\ pending = [u \in Users |-> noRequest]

SpecSend == InitSend /\ [][NextSend]_vars

\* SpecPolicy: the project managers, the contractor and the viewer write to
\* every account, for every assignment of projects
ProjectDocs ==
  {[projectManager |-> "pm", contractor |-> "ct"],
   [projectManager |-> "px", contractor |-> "ct"],
   [projectManager |-> "pm", contractor |-> NoUser]}

PolicyLists == {<<x>> : x \in Users} \cup {<<"sa", "ct">>}

InitPolicy ==
  /\ messages = <<>>
  /\ projects \in SUBSET ProjectDocs
  /\ now = 1
  /\ positional \in {"recipient", "isRead"}
  /\ response = plainResponse("none", NoUser, Null, 0)
  /\ notifications = {}
  /\ pending = [u \in Users |-> noRequest]

NextPolicy ==
  \/ Send({"pm", "ct", "px", "vw"}, PolicyLists, Texts, {Null})

SpecPolicy == InitPolicy /\ [][NextPolicy]_vars

\* SpecInbox: the inbox, page by page, while messages arrive and time passes
InboxPaged ==
  \E u \in Participants, page \in 1..MaxMsgs, limit \in Limits : getConversations(u, page, limit)

NextInbox ==
  \/ Tick
  \/ Send(Participants, ThreadLists, {SomeText}, {Null} \cup Ids)
  \/ InboxPaged

SpecInbox == Init /\ [][NextInbox]_vars

\* SpecThread: threads are read and deleted while messages arrive and time
\* passes; a thread is asked for by the id of a message or by an id that names none
ThreadAny ==
  \E u \in {"sa", "ct"}, k \in ThreadKeys \cup {GhostId} : getConversationMessages(u, k)

ThreadDelete == \E k \in ThreadKeys : deleteConversation("sa", k)

NextThread ==
  \/ Tick
  \/ Send({"sa", "pm"}, ThreadLists, {SomeText}, {Null} \cup Ids)
  \/ ThreadAny
  \/ ThreadDelete

SpecThread == Init /\ [][NextThread]_vars

\* SpecAssign: the project manager and the contractor write to each other while
\* projects are created and reassigned
\* POST /projects: Project.create(req.body)
createProject(u, p) ==
  /\ projects' = projects \cup {p}
  /\ response' = plainResponse("createProject", u, Null, 201)
  /\ UNCHANGED <<messages, now, positional, notifications, pending>>

\* PUT /projects/:id: Object.assign(project, req.body), or 404
updateProject(u, p, q) ==
  IF p \notin projects
  THEN /\ response' = plainResponse("updateProject", u, Null, 404)
       /\ UNCHANGED <<messages, projects, now, positional, notifications, pending>>
  ELSE /\ projects' = (projects \ {p}) \cup {q}
       /\ response' = plainResponse("updateProject", u, Null, 200)
       /\ UNCHANGED <<messages, now, positional, notifications, pending>>

CreateProject == \E p \in ProjectDocs : createProject("sa", p)

UpdateProject == \E p \in ProjectDocs, q \in ProjectDocs : updateProject("sa", p, q)

NextAssign ==
  \/ Send({"pm", "ct"}, {<<"pm">>, <<"ct">>}, {SomeText}, {Null})
  \/ CreateProject
  \/ UpdateProject

SpecAssign == Init /\ [][NextAssign]_vars

\* SpecConc: getConversationMessages as the two store operations it is made of,
\* Message.find and Message.updateMany, so that the requests of two recipients
\* interleave with each other and with sends; each recipient asks once
Readers == {"pm", "ct"}

foundIds(u) == {pending[u].found[n]._id : n \in DOMAIN pending[u].found}

\* getConversationMessages up to the 404: Message.find(...).sort(...).lean()
threadFind(u, k) ==
  /\ pending[u].phase = "start"
  /\ \E ord \in sortedAsc(messages, threadFilter(messages, u, k)) :
       IF Len(ord) = 0
       THEN /\ response' = plainResponse("getConversationMessages", u, k, 404)
            /\ pending' = [pending EXCEPT ![u] =
                             [phase |-> "done", thread |-> k, found |-> <<>>, at |-> Null]]
            /\ UNCHANGED <<messages, projects, now, positional, notifications>>
       ELSE /\ pending' = [pending EXCEPT ![u] =
                             [phase |-> "found", thread |-> k,
                              found |-> [i \in DOMAIN ord |-> messages[ord[i]]],
                              at |-> Null]]
            /\ UNCHANGED <<messages, projects, now, positional, response, notifications>>

\* threadMark that marks by the thread key, as markAsRead does
threadMark_WholeThread(u) ==
  /\ pending[u].phase = "found"
  /\ messages' = markRead(messages, {i \in Ids : inThread(messages[i], pending[u].thread)},
                          u, now, positional)
  /\ response' = [plainResponse("getConversationMessages", u, pending[u].thread, 200) EXCEPT
                    !.messages = pending[u].found]
  /\ pending' = [pending EXCEPT ![u] = [@ EXCEPT !.phase = "done", !.at = now]]
  /\ UNCHANGED <<projects, now, positional, notifications>>

\* the rest of getConversationMessages: Message.updateMany on the ids found,
\* and the response
threadMark(u) ==
  /\ pending[u].phase = "found"
  /\ messages' = markRead(messages, foundIds(u), u, now, positional)
  /\ response' = [plainResponse("getConversationMessages", u, pending[u].thread, 200) EXCEPT
                    !.messages = pending[u].found]
  /\ pending' = [pending EXCEPT ![u] = [@ EXCEPT !.phase = "done", !.at = now]]
  /\ UNCHANGED <<projects, now, positional, notifications>>

ThreadFind == \E u \in Readers, k \in ThreadKeys : threadFind(u, k)

ThreadMark == \E u \in Readers : threadMark(u)

ReadConc == \E k \in ThreadKeys : markAsRead("ct", k)

ThreadFindOne == \E k \in ThreadKeys : threadFind("pm", k)

ThreadMarkOne == threadMark("pm")

NextConc ==
  \/ Tick
  \/ Send({"sa"}, {<<"pm", "ct">>}, {SomeText}, {Null} \cup Ids)
  \/ ThreadFind
  \/ ThreadMark

SpecConc == Init /\ [][NextConc]_vars

\* SpecMark: one getConversationMessages in two steps, against sends and the
\* markAsRead endpoint
NextMark ==
  \/ Tick
  \/ Send({"sa"}, {<<"pm", "ct">>}, {SomeText}, {Null} \cup Ids)
  \/ ThreadFindOne
  \/ ThreadMarkOne
  \/ ReadConc

SpecMark == Init /\ [][NextMark]_vars

\* SpecDelete: deleteConversation asked for by every account, on threads in
\* which the super admin wrote, was written to, or took no part
DeleteLists == {<<"sa">>, <<"pm">>, <<"ct">>}

DeleteAny ==
  \E u \in {a \in Users : authenticate(a)}, k \in ThreadKeys : deleteConversation(u, k)

NextDelete ==
  \/ Send({"sa", "ad", "pm"}, DeleteLists, {SomeText}, {Null} \cup Ids)
  \/ DeleteAny

SpecDelete == Init /\ [][NextDelete]_vars

(***************************************************************************)
(* Properties.                                                             *)
(***************************************************************************)
\* the recipient entry of u in message m (u is a recipient of m)
ownEntry(m, u) == m.recipients[CHOOSE j \in DOMAIN m.recipients : m.recipients[j].recipient = u]

\* m is visible to u: u takes part in m, has not soft-deleted it, and it is not purged
VisibleTo(m, u) ==
  /\ m.sender = u \/ \E j \in DOMAIN m.recipients : m.recipients[j].recipient = u
  /\ \A j \in DOMAIN m.deletedBy : m.deletedBy[j].user # u
  /\ ~m.isDeleted

\* the step serves a mark-read on behalf of u
MarksReadFor(u) ==
  /\ response'.op \in {"markAsRead", "getConversationMessages"}
  /\ response'.user = u
  /\ messages' # messages

\* C1: a mark-read on behalf of u (getConversationMessages or markAsRead) leaves
\* the isRead and readAt of every recipient entry of another user v as they were
C1_MarkReadOnlyOwnEntries ==
  [][\A u \in Users :
       MarksReadFor(u) =>
         \A i \in Ids : \A j \in DOMAIN messages[i].recipients :
           messages[i].recipients[j].recipient # u =>
             /\ messages'[i].recipients[j].isRead = messages[i].recipients[j].isRead
             /\ messages'[i].recipients[j].readAt = messages[i].recipients[j].readAt]_vars

\* C2: in every step a recipient entry's isRead goes only from false to true,
\* readAt is written on that transition and at no other time, and an entry that
\* is read keeps its isRead and readAt
C2_ReadOnceOnly ==
  [][\A i \in Ids : \A j \in DOMAIN messages[i].recipients :
       LET old == messages[i].recipients[j]
           new == messages'[i].recipients[j]
       IN /\ old.isRead => new.isRead /\ new.readAt = old.readAt
          /\ ~old.isRead /\ new.isRead => new.readAt = now
          /\ ~new.isRead => new.readAt = Null]_vars

\* C3: after a successful getConversationMessages by u, u's own entry is read in
\* every returned message that has u as a recipient
C3_ThreadReadAfterGet ==
  (response.op = "getConversationMessages" /\ response.status = 200) =>
    \A n \in DOMAIN response.messages :
      LET m == messages[response.messages[n]._id]
      IN response.user \in recipientIds(m) => ownEntry(m, response.user).isRead

\* C4: the count getUnreadCount answers u with is the number of messages visible
\* to u in which u's own recipient entry is unread
C4_UnreadCountOwnEntries ==
  response.op = "getUnreadCount" =>
    response.count =
      Cardinality({i \in Ids :
                     /\ VisibleTo(messages[i], response.user)
                     /\ response.user \in recipientIds(messages[i])
                     /\ ~ownEntry(messages[i], response.user).isRead})

\* C5: when the messages visible to u are a root message and replies whose
\* threadId is the root's id, getConversations answers u with one conversation
C5_RootAndRepliesOneGroup ==
  response.op = "getConversations" =>
    LET visible == {i \in Ids : VisibleTo(messages[i], response.user)}
    IN (\E r \in visible :
          /\ messages[r].threadId = Null
          /\ \A i \in visible \ {r} : messages[i].threadId = r)
       => response.pagination.total = 1

\* C6: the threadId of every stored reply names a stored message of which the
\* reply's sender is the sender or a recipient
C6_ReplyThreadAccessible ==
  \A i \in Ids :
    messages[i].threadId # Null =>
      \E r \in Ids :
        /\ r = messages[i].threadId
        /\ messages[r].sender = messages[i].sender
           \/ messages[i].sender \in recipientIds(messages[r])

\* C7: every stored message has at least one recipient, its sender is not among
\* its recipients, and no user is a recipient twice
C7_RecipientsWellFormed ==
  \A i \in Ids :
    /\ Len(messages[i].recipients) > 0
    /\ \A j \in DOMAIN messages[i].recipients :
         messages[i].recipients[j].recipient # messages[i].sender
    /\ \A j, l \in DOMAIN messages[i].recipients :
         j # l => messages[i].recipients[j].recipient # messages[i].recipients[l].recipient

\* a message was stored for a request whose recipient list names a user twice
C7_Witness ==
  /\ response.op = "sendMessage"
  /\ response.status = 201
  /\ Len(response.requested) = 2
  /\ response.requested[1] = response.requested[2]
  /\ Len(messages[Len(messages)].recipients) = 1

\* C8: every conversation getConversations answers u with is led by a message
\* visible to u, counts only unread messages visible to u and there are as many
\* conversations as the messages visible to u have keys; every message
\* getConversationMessages answers u with is visible to u
C8_ViewsShowOnlyVisible ==
  /\ response.op = "getConversations" =>
       /\ \A n \in DOMAIN response.conversations :
            LET c == response.conversations[n]
            IN /\ VisibleTo(messages[c._id], response.user)
               /\ c.unreadCount =
                    Cardinality({i \in Ids :
                      /\ VisibleTo(messages[i], response.user)
                      /\ conversationKey(messages[i]) = conversationKey(messages[c._id])
                      /\ response.user \in recipientIds(messages[i])
                      /\ ~ownEntry(messages[i], response.user).isRead})
       /\ response.pagination.total =
            Cardinality({conversationKey(messages[i]) :
                           i \in {j \in Ids : VisibleTo(messages[j], response.user)}})
  /\ response.op = "getConversationMessages" =>
       \A n \in DOMAIN response.messages : VisibleTo(response.messages[n], response.user)

\* getConversations answered a user who has soft-deleted a message and still
\* sees another
C8_Witness ==
  /\ response.op = "getConversations"
  /\ Len(response.conversations) > 0
  /\ \E i \in Ids : \E j \in DOMAIN messages[i].deletedBy :
       messages[i].deletedBy[j].user = response.user

\* what getConversations can answer u with, over all pages
inboxView(msgs, u) ==
  {allConversations(msgs, ord, u) : ord \in sortedDesc(msgs, conversationsFilter(msgs, u))}

\* what getConversationMessages can answer u with for the key k
threadView(msgs, u, k) ==
  {[n \in DOMAIN ord |-> msgs[ord[n]]] : ord \in sortedAsc(msgs, threadFilter(msgs, u, k))}

\* what getUnreadCount answers u with
unreadView(msgs, u) == Cardinality(unreadFilter(msgs, u))

\* threadView, without the deletedBy markers the returned documents carry
threadViewContent(msgs, u, k) ==
  {[n \in DOMAIN ord |-> [msgs[ord[n]] EXCEPT !.deletedBy = <<>>]] :
     ord \in sortedAsc(msgs, threadFilter(msgs, u, k))}

\* the step is a deleteConversation by a that soft-deletes
DeletesFor(a) ==
  /\ response'.op = "deleteConversation"
  /\ response'.user = a
  /\ response'.status = 200
  /\ messages' # messages

C10_OneMarkerPerUser ==
  \A i \in Ids : \A u \in Users :
    Cardinality({j \in DOMAIN messages[i].deletedBy : messages[i].deletedBy[j].user = u}) =< 1

\* the step is a deleteConversation by u on the key k that answers 200
DeletesThread(u, k) ==
  /\ response'.op = "deleteConversation"
  /\ response'.user = u
  /\ response'.thread = k
  /\ response'.status = 200

\* C11: a deleteConversation(k) by u removes no message and changes no field but
\* deletedBy, to which it only appends markers of u; a message outside the thread
\* k, and a message of the thread in which u is neither sender nor recipient,
\* keeps its deletedBy
C11_DeleteMarksOnlyOwnThreadMessages ==
  [][\A u \in Users : \A k \in ThreadKeys :
       DeletesThread(u, k) =>
         /\ Len(messages') = Len(messages)
         /\ \A i \in Ids :
              /\ [messages'[i] EXCEPT !.deletedBy = <<>>] = [messages[i] EXCEPT !.deletedBy = <<>>]
              /\ Len(messages'[i].deletedBy) >= Len(messages[i].deletedBy)
              /\ SubSeq(messages'[i].deletedBy, 1, Len(messages[i].deletedBy)) = messages[i].deletedBy
              /\ \A j \in (Len(messages[i].deletedBy) + 1)..Len(messages'[i].deletedBy) :
                   messages'[i].deletedBy[j].user = u
              /\ (~inThread(messages[i], k) \/ ~isParticipant(messages[i], u)) =>
                   messages'[i].deletedBy = messages[i].deletedBy]_vars

\* C12: a deleteConversation asked for by a user whose role is not super_admin
\* answers 403 and leaves the Message collection as it was
C12_DeleteOnlySuperAdmin ==
  [][(response'.op = "deleteConversation" /\ Role(response'.user) # SUPER_ADMIN) =>
       /\ response'.status = 403
       /\ messages' = messages]_vars

\* an admin asked to delete a thread the admin takes part in, and was refused
C12_Witness ==
  /\ response.op = "deleteConversation"
  /\ Role(response.user) = ADMIN
  /\ response.status = 403
  /\ deleteFilter(messages, response.user, response.thread) # {}

\* the step is the sendMessage of u with this request body, for some threadId
SendsAs(u, recipients, subject, body) ==
  /\ response'.op = "sendMessage"
  /\ response'.user = u
  /\ \E threadId \in ThreadIds : sendMessage(u, recipients, subject, body, threadId)

\* some project has u as contractor and x as projectManager (u a contractor), or
\* u as projectManager and x as contractor (u a project manager)
Assigned(u, x) ==
  IF Role(u) = CONTRACTOR
  THEN \E p \in projects : p.contractor = u /\ p.projectManager = x
  ELSE \E p \in projects : p.projectManager = u /\ p.contractor = x

\* the contractors and project managers whose requests reach the controller
FieldActors == {u \in Users : authenticate(u) /\ Role(u) \in {CONTRACTOR, PROJECT_MANAGER}}

\* the accounts that are neither admin nor super admin
NonAdmins == {x \in Users : Role(x) \notin {SUPER_ADMIN, ADMIN}}

\* C13 as stated: a send of a contractor or project manager u to one other
\* non-admin user x is accepted (201, the message is stored) exactly when a
\* project assigns u and x to each other, and is refused as forbidden (403)
\* otherwise
C13_AcceptedIffAssigned ==
  [][\A u \in FieldActors : \A x \in NonAdmins \ {u} :
       SendsAs(u, <<x>>, SomeText, SomeText) =>
         /\ response'.status = IF Assigned(u, x) THEN 201 ELSE 403
         /\ Len(messages') = IF Assigned(u, x) THEN Len(messages) + 1 ELSE Len(messages)]_vars

\* C13 amended: ... exactly when a project assigns u and x to each other and the
\* account of x is active
C13_AcceptedIffAssignedAndActive ==
  [][\A u \in FieldActors : \A x \in NonAdmins \ {u} :
       SendsAs(u, <<x>>, SomeText, SomeText) =>
         /\ response'.status = IF Assigned(u, x) /\ isActive(x) THEN 201 ELSE 403
         /\ Len(messages') = IF Assigned(u, x) /\ isActive(x)
                              THEN Len(messages) + 1 ELSE Len(messages)]_vars

\* the contractor has written to the project manager of a project, and a further
\* send of the contractor was refused
C13_Witness ==
  /\ \E i \in Ids : messages[i].sender = "ct" /\ "pm" \in recipientIds(messages[i])
  /\ response.op = "sendMessage"
  /\ response.user = "ct"
  /\ response.status = 403

\* the roles the recipient policy gives recipients to
MessagingRoles == {SUPER_ADMIN, ADMIN, PROJECT_MANAGER, CONTRACTOR}

\* the accounts of another role whose requests reach the controller
OtherActors == {u \in Users : authenticate(u) /\ Role(u) \notin MessagingRoles}

\* the accounts of a messaging role whose requests reach the controller
MessagingActors == {u \in Users : authenticate(u) /\ Role(u) \in MessagingRoles}

C15_SelfDroppedBeforeEligibility ==
  [][\A u \in MessagingActors : \A recipients \in RecipientLists :
       (/\ u \in Range(recipients)
        /\ Range(recipients) \ {u} # {}
        /\ Range(recipients) \ {u} \subseteq getAllowedRecipients(u, projects)
        /\ SendsAs(u, recipients, SomeText, SomeText))
       => /\ response'.status = 201
          /\ Len(messages') = Len(messages) + 1
          /\ recipientIds(messages'[Len(messages')]) = Range(recipients) \ {u}]_vars

\* C16: a send of an actor of a messaging role whose recipients are the actor
\* alone answers 400, a validation error, and not 403, and writes no message
C16_SelfOnlyIsValidationError ==
  [][\A u \in MessagingActors : \A recipients \in RecipientLists :
       (/\ recipients # <<>>
        /\ Range(recipients) = {u}
        /\ SendsAs(u, recipients, SomeText, SomeText))
       => /\ response'.status = 400
          /\ messages' = messages]_vars

\* C17: a sendMessage that answers with an error (400 or 403) leaves the Message
\* collection as it was
C17_FailedSendWritesNothing ==
  [][(response'.op = "sendMessage" /\ response'.status # 201) => messages' = messages]_vars

\* a send was refused while the collection holds messages
C17_Witness ==
  /\ response.op = "sendMessage"
  /\ response.status \in {400, 403}
  /\ Len(messages) = MaxMsgs

\* C18: the unreadCount of every conversation getConversations answers u with is
\* the number of messages of that conversation, among those fetched for u, that
\* have u as a recipient whose own entry is unread; when the collection holds one
\* message that nobody has read or deleted, page 1 answers its recipients with
\* unreadCount 1 and its sender with unreadCount 0
C18_GroupUnreadCount ==
  response.op = "getConversations" =>
    /\ \A n \in DOMAIN response.conversations :
         LET c == response.conversations[n]
             group == {i \in conversationsFilter(messages, response.user) :
                         conversationKey(messages[i]) = conversationKey(messages[c._id])}
         IN c.unreadCount =
              Cardinality({i \in group :
                             /\ messages[i].sender # response.user
                             /\ \E j \in DOMAIN messages[i].recipients :
                                  /\ messages[i].recipients[j].recipient = response.user
                                  /\ ~messages[i].recipients[j].isRead})
    /\ (/\ Len(messages) = 1
        /\ messages[1].deletedBy = <<>>
        /\ \A j \in DOMAIN messages[1].recipients : ~messages[1].recipients[j].isRead
        /\ isParticipant(messages[1], response.user)
        /\ response.pagination.page = 1)
       => /\ Len(response.conversations) = 1
          /\ response.conversations[1].unreadCount =
               IF response.user = messages[1].sender THEN 0 ELSE 1

\* getConversations answered a recipient who has read one of two messages of a
\* conversation while another recipient has read nothing
C18_Witness ==
  /\ response.op = "getConversations"
  /\ \E n \in DOMAIN response.conversations : response.conversations[n].unreadCount = 1
  /\ \E i \in Ids :
       /\ response.user \in recipientIds(messages[i])
       /\ ownEntry(messages[i], response.user).isRead
       /\ \E j \in DOMAIN messages[i].recipients : ~messages[i].recipients[j].isRead

\* C19: the conversations getConversations answers with are in descending order
\* of lastMessageAt, and two with the same lastMessageAt in descending order of
\* the id of their last message
C19_InboxOrderDeterministic ==
  response.op = "getConversations" =>
    \A n, m \in DOMAIN response.conversations :
      n < m =>
        \/ response.conversations[n].lastMessageAt > response.conversations[m].lastMessageAt
        \/ /\ response.conversations[n].lastMessageAt = response.conversations[m].lastMessageAt
           /\ response.conversations[n]._id > response.conversations[m]._id

\* the conversation keys of the conversations of a page
pageKeys(cs) == {conversationKey(messages[cs[n]._id]) : n \in DOMAIN cs}

\* C20: when getConversations answers u with page p and, next, with page p + 1
\* for the same limit, the two pages hold no conversation in common, page p + 1
\* holds the conversations skip + 1 .. skip + limit of the total, the total is the
\* number of conversation keys of the messages visible to u, and pages 1 and 2 of
\* two hold every conversation
C20_PagesPartitionGroups ==
  [][(/\ response.op = "getConversations"
      /\ response'.op = "getConversations"
      /\ response'.user = response.user
      /\ response'.pagination.limit = response.pagination.limit
      /\ response'.pagination.page = response.pagination.page + 1)
     => LET groups == {conversationKey(messages[i]) :
                         i \in {j \in Ids : VisibleTo(messages[j], response.user)}}
            total == response'.pagination.total
            skip == response.pagination.page * response.pagination.limit
            rest == IF total > skip THEN total - skip ELSE 0
        IN /\ total = Cardinality(groups)
           /\ response'.pagination.totalPages * response.pagination.limit >= total
           /\ (response'.pagination.totalPages - 1) * response.pagination.limit < total
           /\ Len(response'.conversations) =
                IF rest < response.pagination.limit THEN rest ELSE response.pagination.limit
           /\ pageKeys(response.conversations) \cap pageKeys(response'.conversations) = {}
           /\ (response.pagination.page = 1 /\ response'.pagination.totalPages = 2) =>
                pageKeys(response.conversations) \cup pageKeys(response'.conversations) = groups]_vars

\* the ids of the messages of the thread k that are visible to u
visibleThread(u, k) ==
  {i \in Ids : inThread(messages[i], k) /\ VisibleTo(messages[i], u)}

\* C21: getConversationMessages answers u, for the key k, with the messages
\* visible to u whose id or threadId is k, each once, as they were stored, in
\* non-decreasing order of createdAt; it answers 404 when there is none
C21_ThreadExactAndOldestFirst ==
  response.op = "getConversationMessages" =>
    LET want == visibleThread(response.user, response.thread)
        got == response.messages
    IN IF want = {}
       THEN response.status = 404 /\ got = <<>>
       ELSE /\ response.status = 200
            /\ {got[n]._id : n \in DOMAIN got} = want
            /\ Len(got) = Cardinality(want)
            /\ \A n \in DOMAIN got :
                 [got[n] EXCEPT !.recipients = <<>>] =
                   [messages[got[n]._id] EXCEPT !.recipients = <<>>]
            /\ \A n, m \in DOMAIN got : n < m => got[n].createdAt =< got[m].createdAt

\* getConversationMessages answered with two messages of different createdAt,
\* while the thread holds a message the user has soft-deleted
C21_Witness ==
  /\ response.op = "getConversationMessages"
  /\ Len(response.messages) = 2
  /\ response.messages[1].createdAt < response.messages[2].createdAt

\* C22: a getConversationMessages of u for a key k under which u sees no message
\* (no message has id or threadId k, or u takes no part in them, or u has
\* soft-deleted them) writes nothing and answers in each case with the same 404
C22_NotFoundIndistinguishable ==
  [][\A u \in Users : \A k \in ThreadKeys \cup {GhostId} :
       (/\ response'.op = "getConversationMessages"
        /\ response'.user = u
        /\ response'.thread = k
        /\ visibleThread(u, k) = {})
       => /\ messages' = messages
          /\ [response' EXCEPT !.thread = Null] =
               plainResponse("getConversationMessages", u, Null, 404)]_vars

\* a user was answered 404 for a thread whose messages the user has soft-deleted
C22_Witness ==
  /\ response.op = "getConversationMessages"
  /\ response.status = 404
  /\ \E i \in Ids :
       /\ inThread(messages[i], response.thread)
       /\ response.user \in deletedByUsers(messages[i])

\* C23: for every stored message, a notification has been dispatched to each of
\* its recipients
C23_SendNotifiesRecipients ==
  \A i \in Ids : \A r \in recipientIds(messages[i]) :
    [recipient |-> r, message |-> i] \in notifications

\* C24: a message that carries a marker of u keeps it in every step, and after
\* the step it is in no result of the queries of getConversations,
\* getConversationMessages and getUnreadCount for u, nor among the messages of a
\* response to u
C24_HiddenStaysHidden ==
  [][\A i \in Ids : \A u \in Users :
       u \in deletedByUsers(messages[i]) =>
         /\ u \in deletedByUsers(messages'[i])
         /\ i \notin conversationsFilter(messages', u)
         /\ \A k \in ThreadKeys : i \notin threadFilter(messages', u, k)
         /\ i \notin unreadFilter(messages', u)
         /\ (/\ response'.user = u
             /\ response'.op \in {"getConversations", "getConversationMessages"})
            => /\ \A n \in DOMAIN response'.messages : response'.messages[n]._id # i
               /\ \A n \in DOMAIN response'.conversations :
                    response'.conversations[n]._id # i]_vars

\* a user who has soft-deleted a message of a thread was answered with a later
\* message of that thread
C24_Witness ==
  /\ response.op = "getConversationMessages"
  /\ response.status = 200
  /\ \E i, j \in Ids :
       /\ response.user \in deletedByUsers(messages[i])
       /\ messages[j].threadId = i
       /\ response.user \notin deletedByUsers(messages[j])
       /\ \E n \in DOMAIN response.messages : response.messages[n]._id = j

\* C25: a send between the project manager and the contractor is accepted when a
\* project assigns them to each other at the time of the send, and refused as
\* forbidden when none does, whatever the projects were at earlier sends
C25_EligibilityFromCurrentProjects ==
  [][\A u \in {"pm", "ct"} : \A x \in {"pm", "ct"} \ {u} :
       SendsAs(u, <<x>>, SomeText, SomeText) =>
         IF \E p \in projects : p.projectManager = "pm" /\ p.contractor = "ct"
         THEN response'.status = 201 /\ messages' # messages
         ELSE response'.status = 403 /\ messages' = messages]_vars

\* a send between the two was accepted, the project was reassigned, and the next
\* send was refused
C25_Witness ==
  /\ \E i \in Ids : messages[i].sender = "pm" /\ "ct" \in recipientIds(messages[i])
  /\ ~\E p \in projects : p.projectManager = "pm" /\ p.contractor = "ct"
  /\ response.op = "sendMessage"
  /\ response.user = "pm"
  /\ response.status = 403

C28_ThreadKeyRoundTrip ==
  response.op = "getConversations" =>
    \A n \in DOMAIN response.conversations :
      LET c == response.conversations[n]
          u == response.user
      IN threadFilter(messages, u, c.threadId) =
           {i \in conversationsFilter(messages, u) :
              conversationKey(messages[i]) = conversationKey(messages[c._id])}

\* C30: a deleteConversation of a super admin u for a key under which u sees no
\* message answers 404 and leaves the collection as it was
C30_DeleteNothingVisibleNotFound ==
  [][\A u \in Users : \A k \in ThreadKeys :
       (/\ response'.op = "deleteConversation"
        /\ response'.user = u
        /\ response'.thread = k
        /\ Role(u) = SUPER_ADMIN
        /\ visibleThread(u, k) = {})
       => /\ response'.status = 404
          /\ messages' = messages]_vars

\* C27: when the getConversationMessages requests of two recipients u and v have
\* both been answered, every message both of them were answered with has u's
\* entry read with the readAt of u's update and v's entry read with the readAt of
\* v's update
C27_ConcurrentReadersBothRead ==
  \A u \in Readers : \A v \in Readers \ {u} :
    (pending[u].phase = "done" /\ pending[v].phase = "done") =>
      \A i \in foundIds(u) \cap foundIds(v) :
        (u \in recipientIds(messages[i]) /\ v \in recipientIds(messages[i])) =>
          /\ ownEntry(messages[i], u).isRead
          /\ ownEntry(messages[i], u).readAt = pending[u].at
          /\ ownEntry(messages[i], v).isRead
          /\ ownEntry(messages[i], v).readAt = pending[v].at

\* the step is the updateMany of the getConversationMessages of u
MarksFound(u) ==
  /\ pending[u].phase = "found"
  /\ pending'[u].phase = "done"

\* the step is the markAsRead of u for the key k
MarksThread(u, k) ==
  /\ response'.op = "markAsRead"
  /\ markAsRead(u, k)

\* C29: the update of getConversationMessages changes no message but those its
\* find returned, so that a message appended to the thread in between stays as
\* it was; a markAsRead of u for k leaves in every message of the thread that
\* matches its filter at that step an entry read at that time, and changes no
\* other message
C29_GetThreadMarksOnlyReturned ==
  [][\A u \in Readers :
       /\ MarksFound(u) =>
            \A i \in Ids \ foundIds(u) : messages'[i] = messages[i]
       /\ \A k \in ThreadKeys :
            MarksThread(u, k) =>
              \A i \in Ids :
                IF inThread(messages[i], k) /\ matchesUnread(messages[i], u)
                THEN \E j \in DOMAIN messages[i].recipients :
                       /\ messages[i].recipients[j].recipient = u
                          \/ ~messages[i].recipients[j].isRead
                       /\ messages'[i].recipients[j].isRead
                       /\ messages'[i].recipients[j].readAt = now
                ELSE messages'[i] = messages[i]]_vars

\* a reply was appended to the thread between the find and the update of a
\* getConversationMessages, and the reader's entry in it is unread after the update
C29_Witness ==
  \E u \in Readers :
    /\ pending[u].phase = "done"
    /\ response.op = "getConversationMessages"
    /\ response.user = u
    /\ response.status = 200
    /\ \E i \in Ids \ foundIds(u) :
         /\ inThread(messages[i], pending[u].thread)
         /\ u \in recipientIds(messages[i])
         /\ \A j \in DOMAIN messages[i].recipients : ~messages[i].recipients[j].isRead

====
